---- MODULE Spec2Model ----
(***************************************************************************)
(* Availability resolution engine of the swimming schedule app:            *)
(*   generateTimeSlots, applyTravelTimeRestrictions, groupSlotsByApartment *)
(*   (utils/timeSlotUtils) and the pass ScheduleViewer.fetchData makes     *)
(*   over them.                                                            *)
(*                                                                         *)
(* Times.  A wall-clock "HH:mm" string is written as its minute of the day *)
(* (0..1439); a Date is written as minutes since 00:00 of day 0.  date-fns *)
(* parse/format/addMinutes/isBefore/isAfter/isEqual are modelled on those  *)
(* integers: format drops the day (mod 1440), parse puts it back.          *)
(***************************************************************************)
EXTENDS Integers, Sequences, FiniteSets, TLC

VARIABLES
    apartmentsData,     \* getApartments() result: sequence of Apartment
    bookingsData,       \* getBookingsByDate(date) result: sequence of Booking
    userHomeLocation,   \* userData?.homeLocation ("" when absent)
    pc,                 \* position of the pass
    idx,                \* index of the next apartment of apartmentsData.forEach
    allSlots,           \* the slot list generated so far / passed to the resolver
    restricted,         \* value returned by applyTravelTimeRestrictions
    timeSlots,          \* groupSlotsByApartment result (apartment id -> slots)
    currentTime,        \* generateTimeSlots: the loop variable of the while loop
    slots,              \* generateTimeSlots: the array the loop pushes to
    endTime,            \* generateTimeSlots: the parsed end of the window
    today,              \* the day `new Date()` is on when it is evaluated
    iterations,         \* generateTimeSlots: iterations of the while loop so far
    gridText,           \* DirectBookingGrid: getSlotText per apartment and hour
    currentUser,        \* AuthProvider state: the signed-in Firebase user or null
    userData,           \* AuthProvider state: the profile document loaded, or null
    loading,            \* AuthProvider state: no auth callback has finished yet
    pendingProfiles,    \* fetchUserData calls whose getDoc has not settled
    location,           \* the router's current path
    selectedDate,       \* ScheduleViewer state
    refreshCounter,     \* ScheduleViewer state
    apartmentsState,    \* ScheduleViewer state `apartments`
    bookingsState,      \* ScheduleViewer state `bookings`
    isLoading,          \* ScheduleViewer state
    fetches             \* the fetchData calls the effect has started, in order

\* the variables of the availability engine and its pass
passVars == <<apartmentsData, bookingsData, userHomeLocation, pc, idx, allSlots,
              restricted, timeSlots, currentTime, slots, endTime, today, iterations>>

gridVars == <<gridText>>

authVars == <<currentUser, userData, loading, pendingProfiles, location>>

viewerVars == <<selectedDate, refreshCounter, apartmentsState, bookingsState,
                isLoading, fetches>>

vars == <<passVars, gridVars, authVars, viewerVars>>

\* null / undefined, for a user and a role; a profile that is null is <<>>
Null == "null"

\* the components a specification does not follow stay as they are mounted
GridIdle == gridText = <<>>

AuthIdle ==
    /\ currentUser = Null
    /\ userData = <<>>
    /\ loading = TRUE
    /\ pendingProfiles = {}
    /\ location = "/"

ViewerIdle ==
    /\ selectedDate = 1
    /\ refreshCounter = 1
    /\ apartmentsState = <<>>
    /\ bookingsState = <<>>
    /\ isLoading = TRUE
    /\ fetches = <<>>

----------------------------------------------------------------------------
(* Bounds of the model *)

MaxBookings == 2
MaxSlots == 3

(* Program constants *)

TRAVEL_TIME_BUFFER == 30

MinutesPerDay == 1440

----------------------------------------------------------------------------
(* date-fns on minute counts *)

\* the day every slot and booking of one pass is on (formattedDate)
TargetDate == 1

\* a string that 'HH:mm' parses: "00:00" .. "23:59".  Any other value stands for
\* an unparsable string ("25:00" is 1500); NoTime is '' or undefined
wellFormedTime(str) == str \in 0..(MinutesPerDay - 1)

NoTime == -1

\* the Invalid Date parse returns for an unparsable string
InvalidDate == -1000000

\* variant of parseTime that carries hours past 23 over into the next day
parseTimeLenient(str) == today * MinutesPerDay + str

\* parse(str, 'HH:mm', new Date()): the wall-clock time on the day of the call
parseTime(str) ==
    IF wellFormedTime(str) THEN today * MinutesPerDay + str ELSE InvalidDate

\* parse(`${date} ${time}`, 'yyyy-MM-dd HH:mm', new Date())
parseDateTime(date, str) ==
    IF wellFormedTime(str) THEN date * MinutesPerDay + str ELSE InvalidDate

\* format(d, 'HH:mm'): hours and minutes only, the day is dropped.  It is applied
\* to valid dates only (to currentTime inside the while loop, which an Invalid
\* Date does not enter)
formatTime(d) == d % MinutesPerDay

\* addMinutes of an Invalid Date is an Invalid Date; every comparison with an
\* Invalid Date is false
addMinutes(d, n) == IF d = InvalidDate THEN InvalidDate ELSE d + n
isBefore(a, b) == a # InvalidDate /\ b # InvalidDate /\ a < b
isAfter(a, b) == a # InvalidDate /\ b # InvalidDate /\ a > b
isEqual(a, b) == a # InvalidDate /\ b # InvalidDate /\ a = b

----------------------------------------------------------------------------
(* generateTimeSlots *)

NoBooking == <<>>

\* variant of findBooking that attaches a reservation to the slot it starts in
RECURSIVE findBookingStartingIn(_, _, _, _, _)
findBookingStartingIn(bookings, k, apartmentId, startTimeString, endTimeString) ==
    IF k > Len(bookings) THEN NoBooking
    ELSE IF /\ bookings[k].startTime >= startTimeString
            /\ bookings[k].startTime < endTimeString
            /\ bookings[k].apartmentId = apartmentId
         THEN <<bookings[k]>>
         ELSE findBookingStartingIn(bookings, k + 1, apartmentId, startTimeString,
                                    endTimeString)

\* variant of findBooking that attaches a reservation to every slot it overlaps
RECURSIVE findBookingOverlapping(_, _, _, _, _)
findBookingOverlapping(bookings, k, apartmentId, startTimeString, endTimeString) ==
    IF k > Len(bookings) THEN NoBooking
    ELSE IF /\ bookings[k].startTime < endTimeString
            /\ bookings[k].endTime > startTimeString
            /\ bookings[k].apartmentId = apartmentId
         THEN <<bookings[k]>>
         ELSE findBookingOverlapping(bookings, k + 1, apartmentId, startTimeString,
                                     endTimeString)

\* variant of findBooking that compares the start time only
RECURSIVE findBookingByStart(_, _, _, _, _)
findBookingByStart(bookings, k, apartmentId, startTimeString, endTimeString) ==
    IF k > Len(bookings) THEN NoBooking
    ELSE IF /\ bookings[k].startTime = startTimeString
            /\ bookings[k].apartmentId = apartmentId
         THEN <<bookings[k]>>
         ELSE findBookingByStart(bookings, k + 1, apartmentId, startTimeString,
                                 endTimeString)

\* bookings.find(b => b.startTime === start && b.endTime === end &&
\*                    b.apartmentId === apartment.id): first match or none
RECURSIVE findBooking(_, _, _, _, _)
findBooking(bookings, k, apartmentId, startTimeString, endTimeString) ==
    IF k > Len(bookings) THEN NoBooking
    ELSE IF /\ bookings[k].startTime = startTimeString
            /\ bookings[k].endTime = endTimeString
            /\ bookings[k].apartmentId = apartmentId
         THEN <<bookings[k]>>
         ELSE findBooking(bookings, k + 1, apartmentId, startTimeString, endTimeString)

\* variant of makeTimeSlot that gives the slot the status of its reservation
makeTimeSlotCopyingStatus(apartment, date, bookings, startTimeString, endTimeString) ==
    LET existingBooking ==
            findBooking(bookings, 1, apartment.id, startTimeString, endTimeString)
    IN  [apartmentId |-> apartment.id,
         date        |-> date,
         startTime   |-> startTimeString,
         endTime     |-> endTimeString,
         status      |-> IF existingBooking # NoBooking
                         THEN existingBooking[1].status ELSE "available",
         booking     |-> existingBooking]

\* the slot pushed by one iteration of the while loop
makeTimeSlot(apartment, date, bookings, startTimeString, endTimeString) ==
    LET existingBooking ==
            findBooking(bookings, 1, apartment.id, startTimeString, endTimeString)
    IN  [apartmentId |-> apartment.id,
         date        |-> date,
         startTime   |-> startTimeString,
         endTime     |-> endTimeString,
         status      |-> IF existingBooking # NoBooking THEN "booked" ELSE "available",
         booking     |-> existingBooking]

\* apartment.defaultSlotDuration || 60
slotDurationOf(apartment) ==
    IF apartment.defaultSlotDuration = 0 THEN 60 ELSE apartment.defaultSlotDuration

\* while (isBefore(currentTime, endTime) || isEqual(currentTime, endTime)) { ... }
RECURSIVE slotLoop(_, _, _, _, _, _)
slotLoop(apartment, date, bookings, windowEnd, cur, acc) ==
    IF ~(isBefore(cur, windowEnd) \/ isEqual(cur, windowEnd))
    THEN acc
    ELSE LET startTimeString == formatTime(cur)
             endTimeString ==
                 formatTime(addMinutes(cur, slotDurationOf(apartment)))
         IN  IF isAfter(parseTime(endTimeString), windowEnd)
             THEN acc
             ELSE slotLoop(apartment, date, bookings, windowEnd,
                           addMinutes(cur, slotDurationOf(apartment)),
                           Append(acc, makeTimeSlot(apartment, date, bookings,
                                                    startTimeString, endTimeString)))

\* apartment.start / apartment.end stand for operatingHours?.start || start and
\* operatingHours?.end || end: the stored documents carry both with equal values

\* ... || '08:00'
startTimeStrOf(apartment) ==
    IF apartment.start = NoTime THEN 480 ELSE apartment.start

\* ... || '20:00'
endTimeStrOf(apartment) ==
    IF apartment.end = NoTime THEN 1200 ELSE apartment.end

generateTimeSlots(apartment, date, bookings) ==
    slotLoop(apartment, date, bookings,
             parseTime(endTimeStrOf(apartment)), parseTime(startTimeStrOf(apartment)),
             <<>>)

----------------------------------------------------------------------------
(* applyTravelTimeRestrictions *)

isOccupied(slot) == slot.status = "booked" \/ slot.status = "unavailable"

\* variant of bookedSlotsOf that also counts 'travel-restricted' slots
bookedSlotsOfAnyRestricted(allTimeSlots) ==
    SelectSeq(allTimeSlots, LAMBDA slot : slot.status # "available")

\* allTimeSlots.filter(slot => status === 'booked' || status === 'unavailable')
bookedSlotsOf(allTimeSlots) == SelectSeq(allTimeSlots, isOccupied)

\* variant of homeConflict in which touching end points count as overlap
homeConflictInclusive(slot, bookedSlot) ==
    LET bookedStartTime == parseDateTime(bookedSlot.date, bookedSlot.startTime)
        bookedEndTime   == parseDateTime(bookedSlot.date, bookedSlot.endTime)
        slotStartTime   == parseDateTime(slot.date, slot.startTime)
        slotEndTime     == parseDateTime(slot.date, slot.endTime)
    IN  \/ slotStartTime >= bookedStartTime /\ slotStartTime <= bookedEndTime
        \/ slotEndTime >= bookedStartTime /\ slotEndTime <= bookedEndTime
        \/ slotStartTime <= bookedStartTime /\ slotEndTime >= bookedEndTime

\* home branch of hasConflict: direct overlap with the booked time, no buffer
homeConflict(slot, bookedSlot) ==
    LET bookedStartTime == parseDateTime(bookedSlot.date, bookedSlot.startTime)
        bookedEndTime   == parseDateTime(bookedSlot.date, bookedSlot.endTime)
        slotStartTime   == parseDateTime(slot.date, slot.startTime)
        slotEndTime     == parseDateTime(slot.date, slot.endTime)
    IN  \/ /\ isAfter(slotStartTime, bookedStartTime)
              \/ isEqual(slotStartTime, bookedStartTime)
           /\ isBefore(slotStartTime, bookedEndTime)
        \/ /\ isAfter(slotEndTime, bookedStartTime)
           /\ isBefore(slotEndTime, bookedEndTime) \/ isEqual(slotEndTime, bookedEndTime)
        \/ /\ isBefore(slotStartTime, bookedStartTime)
              \/ isEqual(slotStartTime, bookedStartTime)
           /\ isAfter(slotEndTime, bookedEndTime) \/ isEqual(slotEndTime, bookedEndTime)

\* variant of travelConflict with strict comparisons at the buffer edges
travelConflictStrict(slot, bookedSlot) ==
    LET bookedStartTime == parseDateTime(bookedSlot.date, bookedSlot.startTime)
        bookedEndTime   == parseDateTime(bookedSlot.date, bookedSlot.endTime)
        slotStartTime   == parseDateTime(slot.date, slot.startTime)
        slotEndTime     == parseDateTime(slot.date, slot.endTime)
        bufferBeforeBooked == addMinutes(bookedStartTime, -TRAVEL_TIME_BUFFER)
        bufferAfterBooked  == addMinutes(bookedEndTime, TRAVEL_TIME_BUFFER)
    IN  \/ slotStartTime > bufferBeforeBooked /\ slotStartTime < bufferAfterBooked
        \/ slotEndTime > bufferBeforeBooked /\ slotEndTime < bufferAfterBooked
        \/ slotStartTime < bufferBeforeBooked /\ slotEndTime > bufferAfterBooked

\* variant of travelConflict that forgets the buffer
travelConflictNoBuffer(slot, bookedSlot) == homeConflict(slot, bookedSlot)

\* non-home branch of hasConflict: the booked time widened by the travel buffer
travelConflict(slot, bookedSlot) ==
    LET bookedStartTime == parseDateTime(bookedSlot.date, bookedSlot.startTime)
        bookedEndTime   == parseDateTime(bookedSlot.date, bookedSlot.endTime)
        slotStartTime   == parseDateTime(slot.date, slot.startTime)
        slotEndTime     == parseDateTime(slot.date, slot.endTime)
        bufferBeforeBooked == addMinutes(bookedStartTime, -TRAVEL_TIME_BUFFER)
        bufferAfterBooked  == addMinutes(bookedEndTime, TRAVEL_TIME_BUFFER)
    IN  \/ /\ isAfter(slotStartTime, bufferBeforeBooked)
              \/ isEqual(slotStartTime, bufferBeforeBooked)
           /\ isBefore(slotStartTime, bufferAfterBooked)
              \/ isEqual(slotStartTime, bufferAfterBooked)
        \/ /\ isAfter(slotEndTime, bufferBeforeBooked)
              \/ isEqual(slotEndTime, bufferBeforeBooked)
           /\ isBefore(slotEndTime, bufferAfterBooked)
              \/ isEqual(slotEndTime, bufferAfterBooked)
        \/ /\ isBefore(slotStartTime, bufferBeforeBooked)
              \/ isEqual(slotStartTime, bufferBeforeBooked)
           /\ isAfter(slotEndTime, bufferAfterBooked)
              \/ isEqual(slotEndTime, bufferAfterBooked)

hasConflict(slot, bookedSlot, home) ==
    IF home = bookedSlot.apartmentId
    THEN homeConflict(slot, bookedSlot)
    ELSE travelConflict(slot, bookedSlot)

\* variant of conflictStatus that marks the conflicting slot as booked
conflictStatusBooked(bookedSlot, home) == "booked"

\* variant of conflictStatus without the home case
conflictStatusAlwaysTravel(bookedSlot, home) == "travel-restricted"

\* slot = { ...slot, status: 'travel-restricted' };
\* if (userHomeLocation === bookedSlot.apartmentId) slot.status = 'unavailable'
conflictStatus(bookedSlot, home) ==
    IF home = bookedSlot.apartmentId THEN "unavailable" ELSE "travel-restricted"

\* variant of skipsBookedSlot that skips nothing
skipsNoBookedSlot(slot, bookedSlot) == FALSE

\* same-apartment skip of the for loop
skipsBookedSlot(slot, bookedSlot) == bookedSlot.apartmentId = slot.apartmentId

\* variant of restrictLoop whose copy also takes over the reservation of the
\* conflicting slot
RECURSIVE restrictLoopAttaching(_, _, _, _)
restrictLoopAttaching(slot, bookedSlots, k, home) ==
    IF k > Len(bookedSlots) THEN slot
    ELSE IF bookedSlots[k].apartmentId = slot.apartmentId
         THEN restrictLoopAttaching(slot, bookedSlots, k + 1, home)
         ELSE IF hasConflict(slot, bookedSlots[k], home)
              THEN [slot EXCEPT !.status = conflictStatus(bookedSlots[k], home),
                                !.booking = bookedSlots[k].booking]
              ELSE restrictLoopAttaching(slot, bookedSlots, k + 1, home)

\* variant of restrictLoop without the break: the last conflict decides
RECURSIVE restrictLoopLastWins(_, _, _, _)
restrictLoopLastWins(slot, bookedSlots, k, home) ==
    IF k > Len(bookedSlots) THEN slot
    ELSE IF skipsBookedSlot(slot, bookedSlots[k])
         THEN restrictLoopLastWins(slot, bookedSlots, k + 1, home)
         ELSE IF hasConflict(slot, bookedSlots[k], home)
              THEN restrictLoopLastWins(
                       [slot EXCEPT !.status = conflictStatus(bookedSlots[k], home)],
                       bookedSlots, k + 1, home)
              ELSE restrictLoopLastWins(slot, bookedSlots, k + 1, home)

\* variant of restrictLoop whose break is taken after the first booked slot of
\* another apartment, conflict or not
RECURSIVE restrictLoopBreakEarly(_, _, _, _)
restrictLoopBreakEarly(slot, bookedSlots, k, home) ==
    IF k > Len(bookedSlots) THEN slot
    ELSE IF bookedSlots[k].apartmentId = slot.apartmentId
         THEN restrictLoopBreakEarly(slot, bookedSlots, k + 1, home)
         ELSE IF hasConflict(slot, bookedSlots[k], home)
              THEN [slot EXCEPT !.status = conflictStatus(bookedSlots[k], home)]
              ELSE slot

\* for (const bookedSlot of bookedSlots) { ... break on the first conflict }
RECURSIVE restrictLoop(_, _, _, _)
restrictLoop(slot, bookedSlots, k, home) ==
    IF k > Len(bookedSlots) THEN slot
    ELSE IF skipsBookedSlot(slot, bookedSlots[k])
         THEN restrictLoop(slot, bookedSlots, k + 1, home)
         ELSE IF hasConflict(slot, bookedSlots[k], home)
              THEN [slot EXCEPT !.status = conflictStatus(bookedSlots[k], home)]
              ELSE restrictLoop(slot, bookedSlots, k + 1, home)

\* variant of restrictSlot that passes only 'booked' slots through untouched
restrictSlotSkipBookedOnly(slot, bookedSlots, home) ==
    IF slot.status = "booked"
    THEN slot
    ELSE restrictLoop(slot, bookedSlots, 1, home)

\* the callback of allTimeSlots.map
restrictSlot(slot, bookedSlots, home) ==
    IF slot.status = "booked" \/ slot.status = "unavailable"
    THEN slot
    ELSE restrictLoop(slot, bookedSlots, 1, home)

\* variant of inputAfterRestrict in which the callback writes the new status
\* into the slot object it was given
inputAfterRestrictInPlace(slot, bookedSlots, home) ==
    restrictSlot(slot, bookedSlots, home)

\* the slot object of the input list after the callback has run on it: the
\* callback assigns to its parameter and to the spread copy `{ ...slot, status }`,
\* never to a property of the object it was given
inputAfterRestrict(slot, bookedSlots, home) == slot

\* the input list after the call
inputAfterCall(allTimeSlots, home) ==
    [i \in 1..Len(allTimeSlots) |->
        inputAfterRestrict(allTimeSlots[i], bookedSlotsOf(allTimeSlots), home)]

\* variant of applyTravelTimeRestrictions that returns the slots last to first
applyTravelTimeRestrictionsReversed(allTimeSlots, home) ==
    [i \in 1..Len(allTimeSlots) |->
        restrictSlot(allTimeSlots[Len(allTimeSlots) + 1 - i],
                     bookedSlotsOf(allTimeSlots), home)]

\* allTimeSlots.map(slot => ...)
applyTravelTimeRestrictions(allTimeSlots, home) ==
    [i \in 1..Len(allTimeSlots) |->
        restrictSlot(allTimeSlots[i], bookedSlotsOf(allTimeSlots), home)]

----------------------------------------------------------------------------
(* applyTravelTimeRestrictions, the variant of src/utils/timeSlotUtils.ts:  *)
(* bookedSlots.some(...) with strict comparisons and no home branch         *)

\* the predicate passed to bookedSlots.some
altTravelConflict(slot, bookedSlot, home) ==
    IF bookedSlot.apartmentId = slot.apartmentId THEN FALSE
    ELSE IF home = bookedSlot.apartmentId THEN FALSE
    ELSE LET bookedStartTime == parseDateTime(bookedSlot.date, bookedSlot.startTime)
             bookedEndTime   == parseDateTime(bookedSlot.date, bookedSlot.endTime)
             slotStartTime   == parseDateTime(slot.date, slot.startTime)
             slotEndTime     == parseDateTime(slot.date, slot.endTime)
             bufferBeforeBooked == addMinutes(bookedStartTime, -TRAVEL_TIME_BUFFER)
             bufferAfterBooked  == addMinutes(bookedEndTime, TRAVEL_TIME_BUFFER)
         IN  \/ /\ isAfter(slotStartTime, bufferBeforeBooked)
                /\ isBefore(slotStartTime, bookedStartTime)
             \/ /\ isAfter(slotStartTime, bookedEndTime)
                /\ isBefore(slotStartTime, bufferAfterBooked)
             \/ /\ isAfter(bookedStartTime, slotStartTime)
                /\ isBefore(bookedStartTime, slotEndTime)

\* the callback of allTimeSlots.map
altRestrictSlot(slot, bookedSlots, home) ==
    IF slot.status # "available" THEN slot
    ELSE IF \E k \in 1..Len(bookedSlots) : altTravelConflict(slot, bookedSlots[k], home)
         THEN [slot EXCEPT !.status = "travel-restricted"]
         ELSE slot

altApplyTravelTimeRestrictions(allTimeSlots, home) ==
    [i \in 1..Len(allTimeSlots) |->
        altRestrictSlot(allTimeSlots[i], bookedSlotsOf(allTimeSlots), home)]

----------------------------------------------------------------------------
(* groupSlotsByApartment *)

\* The accumulator of the reduce is a plain object literal `{}`: reading
\* acc[key] for a key it does not own finds what Object.prototype holds under
\* that name.  These are names of properties every plain object inherits (all
\* of them functions, hence truthy and without a push method); Firestore
\* accepts each of them as a document id.
ObjectPrototypeKeys ==
    {"constructor", "toString", "valueOf", "hasOwnProperty", "propertyIsEnumerable"}

\* timeSlots.reduce((acc, slot) => { if (!acc[id]) acc[id] = []; acc[id].push(slot);
\* return acc }, {}), from position k on.  `threw` is the TypeError of calling
\* push on an inherited function; it ends the reduce
RECURSIVE groupReduce(_, _, _)
groupReduce(list, k, r) ==
    IF r.threw \/ k > Len(list) THEN r
    ELSE LET key == list[k].apartmentId
         IN  IF key \in DOMAIN r.acc
             THEN groupReduce(list, k + 1,
                      [r EXCEPT !.acc = [r.acc EXCEPT ![key] = Append(@, list[k])]])
             ELSE IF key \in ObjectPrototypeKeys
                  THEN [r EXCEPT !.threw = TRUE]
                  ELSE groupReduce(list, k + 1,
                           [r EXCEPT !.acc = (key :> <<list[k]>>) @@ r.acc])

\* the call: [threw |-> FALSE, acc |-> the Record returned] or threw |-> TRUE
groupSlotsByApartment(list) == groupReduce(list, 1, [threw |-> FALSE, acc |-> <<>>])

----------------------------------------------------------------------------
(* Inputs of a pass *)

\* apartment documents, in the order getApartments returns them
ApartmentIds == <<"Tamarind", "Quayside", "MainPool">>

ApartmentIdSet == {ApartmentIds[i] : i \in 1..Len(ApartmentIds)}

\* operating hours and slot durations the apartment form offers
\* (start/end in 15-minute steps; 15, 30, 45, 60, 90 or 120 minute slots):
\*   08:00-20:00 / 60,  14:15-16:45 / 45,  22:00-23:30 / 60
OperatingConfigs ==
    { [start |-> 480,  end |-> 1200, defaultSlotDuration |-> 60],
      [start |-> 855,  end |-> 1005, defaultSlotDuration |-> 45],
      [start |-> 1320, end |-> 1410, defaultSlotDuration |-> 60] }

StandardConfig == [start |-> 480, end |-> 1200, defaultSlotDuration |-> 60]

mkApartment(i, cfg) ==
    [id |-> ApartmentIds[i], start |-> cfg.start, end |-> cfg.end,
     defaultSlotDuration |-> cfg.defaultSlotDuration]

\* the apartments fetched: the first n documents, each with one of the configs
apartmentList(n, c) == [i \in 1..n |-> mkApartment(i, c[i])]

\* booking times: 15:00-16:00, 15:00-15:30, 15:15-16:15
BookingTimes == { <<900, 960>>, <<900, 930>>, <<915, 975>> }

BookingStatuses == {"booked", "unavailable"}

mkBooking(k, a, t, st) ==
    [id |-> k, apartmentId |-> a, date |-> TargetDate,
     startTime |-> t[1], endTime |-> t[2], status |-> st]

BookingShapes == ApartmentIdSet \X BookingTimes \X BookingStatuses

bookingList(n, f) == [k \in 1..n |-> mkBooking(k, f[k][1], f[k][2], f[k][3])]

\* userData?.homeLocation: an apartment id, or "" when the profile has none
HomeLocations == ApartmentIdSet \cup {""}

\* slot lists handed directly to applyTravelTimeRestrictions:
\*   15:00-16:00, 14:00-14:30, 16:00-17:00, 14:00-17:00, in any status
SlotTimes == { <<900, 960>>, <<840, 870>>, <<960, 1020>>, <<840, 1020>> }

SlotStatuses == {"available", "booked", "unavailable", "travel-restricted"}

mkSlot(a, t, st) ==
    [apartmentId |-> a, date |-> TargetDate, startTime |-> t[1], endTime |-> t[2],
     status |-> st,
     booking |-> IF st = "booked" THEN <<mkBooking(1, a, t, "booked")>> ELSE NoBooking]

SlotShapes == ApartmentIdSet \X SlotTimes \X SlotStatuses

slotList(n, f) == [k \in 1..n |-> mkSlot(f[k][1], f[k][2], f[k][3])]

\* the generated day of Tamarind and Quayside (08:00-20:00, hourly) with
\* Tamarind 15:00-16:00 booked
StandardBookings == << mkBooking(1, "Tamarind", <<900, 960>>, "booked") >>

StandardDay ==
    generateTimeSlots(mkApartment(1, StandardConfig), TargetDate, StandardBookings)
    \o generateTimeSlots(mkApartment(2, StandardConfig), TargetDate, StandardBookings)

----------------------------------------------------------------------------
(* ScheduleViewer.fetchData: generate per apartment, restrict, group.  Each *)
(* generateTimeSlots call of a pass is taken as a whole, on one day of the  *)
(* clock; the call iteration by iteration, with the clock, is further down. *)

Init ==
    /\ GridIdle /\ AuthIdle /\ ViewerIdle
    /\ today = 0
    /\ endTime = 0
    /\ iterations = 0
    /\ \E n \in 2..Len(ApartmentIds) : \E c \in [1..n -> OperatingConfigs] :
           apartmentsData = apartmentList(n, c)
    /\ \E n \in 0..MaxBookings : \E f \in [1..n -> BookingShapes] :
           bookingsData = bookingList(n, f)
    /\ userHomeLocation \in HomeLocations
    /\ pc = "generate"
    /\ idx = 1
    /\ allSlots = <<>>
    /\ restricted = <<>>
    /\ timeSlots = <<>>
    /\ currentTime = 0
    /\ slots = <<>>

\* one iteration of apartmentsData.forEach
GenerateNext ==
    /\ pc = "generate"
    /\ idx <= Len(apartmentsData)
    /\ LET apartment == apartmentsData[idx]
           apartmentSlots ==
               generateTimeSlots(apartment, TargetDate,
                   SelectSeq(bookingsData, LAMBDA b : b.apartmentId = apartment.id))
       IN  allSlots' = allSlots \o apartmentSlots
    /\ idx' = idx + 1
    /\ pc' = IF idx = Len(apartmentsData) THEN "restrict" ELSE "generate"
    /\ UNCHANGED <<apartmentsData, bookingsData, userHomeLocation, restricted, timeSlots,
                 currentTime, slots, endTime, today, iterations>>
    /\ UNCHANGED <<gridVars, authVars, viewerVars>>

\* if (userData?.homeLocation) allSlots = applyTravelTimeRestrictions(allSlots, home)
Restrict ==
    /\ pc = "restrict"
    /\ restricted' = IF userHomeLocation # ""
                     THEN applyTravelTimeRestrictions(allSlots, userHomeLocation)
                     ELSE allSlots
    /\ pc' = "group"
    /\ UNCHANGED <<apartmentsData, bookingsData, userHomeLocation, idx, allSlots, timeSlots,
                 currentTime, slots, endTime, today, iterations>>
    /\ UNCHANGED <<gridVars, authVars, viewerVars>>

\* setTimeSlots(groupSlotsByApartment(allSlots))
Group ==
    /\ pc = "group"
    /\ LET grouped == groupSlotsByApartment(restricted)
       IN  \* a throw lands in fetchData's catch: setTimeSlots is not reached
           /\ timeSlots' = IF grouped.threw THEN timeSlots ELSE grouped.acc
           /\ pc' = IF grouped.threw THEN "failed" ELSE "done"
    /\ UNCHANGED <<apartmentsData, bookingsData, userHomeLocation, idx, allSlots, restricted,
                 currentTime, slots, endTime, today, iterations>>
    /\ UNCHANGED <<gridVars, authVars, viewerVars>>

Next == GenerateNext \/ Restrict \/ Group

Spec == Init /\ [][Next]_vars

----------------------------------------------------------------------------
(* A direct call applyTravelTimeRestrictions(allTimeSlots, userHomeLocation) *)

InitResolver ==
    /\ GridIdle /\ AuthIdle /\ ViewerIdle
    /\ today = 0
    /\ endTime = 0
    /\ iterations = 0
    /\ apartmentsData = <<>>
    /\ bookingsData = <<>>
    /\ userHomeLocation \in HomeLocations
    /\ pc = "call"
    /\ idx = 0
    /\ \/ \E n \in 0..MaxSlots : \E f \in [1..n -> SlotShapes] :
              allSlots = slotList(n, f)
       \/ allSlots = StandardDay
    /\ restricted = <<>>
    /\ timeSlots = <<>>
    /\ currentTime = 0
    /\ slots = <<>>

ApplyRestrictions ==
    /\ pc = "call"
    /\ restricted' = applyTravelTimeRestrictions(allSlots, userHomeLocation)
    /\ allSlots' = inputAfterCall(allSlots, userHomeLocation)
    /\ pc' = "returned"
    /\ UNCHANGED <<apartmentsData, bookingsData, userHomeLocation, idx, timeSlots,
                 currentTime, slots, endTime, today, iterations>>
    /\ UNCHANGED <<gridVars, authVars, viewerVars>>

\* the same call served by the variant of src/utils/timeSlotUtils.ts
ApplyRestrictionsAlt ==
    /\ pc = "call"
    /\ restricted' = altApplyTravelTimeRestrictions(allSlots, userHomeLocation)
    /\ allSlots' = inputAfterCall(allSlots, userHomeLocation)
    /\ pc' = "returnedAlt"
    /\ UNCHANGED <<apartmentsData, bookingsData, userHomeLocation, idx, timeSlots,
                 currentTime, slots, endTime, today, iterations>>
    /\ UNCHANGED <<gridVars, authVars, viewerVars>>

NextResolver == ApplyRestrictions \/ ApplyRestrictionsAlt

SpecResolver == InitResolver /\ [][NextResolver]_vars

----------------------------------------------------------------------------
(* One call generateTimeSlots(apartment, date, bookings), iteration by      *)
(* iteration, for apartment documents of any shape.  pc "loop" is the call   *)
(* served by the function of part_000, "loopAlt" the one served by           *)
(* src/utils/timeSlotUtils.ts (no `|| 60` fallback).                         *)

\* The loop is followed for as long as it runs.  To keep the states of a loop
\* that never ends finite, the model keeps the first MaxIterations slots pushed,
\* counts the iterations modulo MaxIterations + 1, and moves a currentTime that
\* has fallen more than a day before day 0 one day up: the loop condition and
\* the break read only whether currentTime is at or before endTime (which is on
\* day 0 or later) and its time of day.  A call of the model that returns
\* without midnight having passed does so within 12 iterations.
MaxIterations == 16

keptSlots(list, slot) == IF Len(list) < MaxIterations THEN Append(list, slot) ELSE list

countedIterations(n) == (n + 1) % (MaxIterations + 1)

keptTime(t) == IF t < -MinutesPerDay THEN t + MinutesPerDay ELSE t

\* apartment documents as the store can hold them:
\*   08:00-20:00 / 60,  14:15-16:45 / 45,  08:00-20:00 / 0,  08:00-20:00 / -60,
\*   08:00-23:30 / -60,  10:00-10:00 / 60,  20:00-08:00 / 60,  23:00-23:00 / 60
GeneratorConfigs ==
    { [start |-> 480,  end |-> 1200, defaultSlotDuration |-> 60],
      [start |-> 855,  end |-> 1005, defaultSlotDuration |-> 45],
      [start |-> 480,  end |-> 1200, defaultSlotDuration |-> 0],
      [start |-> 480,  end |-> 1200, defaultSlotDuration |-> -60],
      [start |-> 480,  end |-> 1410, defaultSlotDuration |-> -60],
      [start |-> 600,  end |-> 600,  defaultSlotDuration |-> 60],
      [start |-> 1200, end |-> 480,  defaultSlotDuration |-> 60],
      [start |-> 1380, end |-> 1380, defaultSlotDuration |-> 60] }

\* the duration the loop steps by: `apartment.defaultSlotDuration || 60` in
\* part_000, apartment.defaultSlotDuration in src/utils/timeSlotUtils.ts
loopDuration(apartment, at) ==
    IF at = "loop" THEN slotDurationOf(apartment) ELSE apartment.defaultSlotDuration

\* latest day the clock is followed to
MaxDay == 1

\* the condition of the while loop
loopEntered(cur) == isBefore(cur, endTime) \/ isEqual(cur, endTime)

\* if (isAfter(parse(endTimeString, 'HH:mm', new Date()), endTime)) break
loopBreaks(cur, duration) ==
    isAfter(parseTime(formatTime(addMinutes(cur, duration))), endTime)

InitGenerator ==
    /\ GridIdle /\ AuthIdle /\ ViewerIdle
    /\ today = 0
    /\ iterations = 0
    /\ \E cfg \in GeneratorConfigs : apartmentsData = << mkApartment(1, cfg) >>
    /\ \E n \in 0..1 : \E f \in [1..n -> BookingShapes] :
           bookingsData = bookingList(n, f)
    /\ userHomeLocation = ""
    /\ pc \in {"loop", "loopAlt"}
    /\ idx = 1
    /\ allSlots = <<>>
    /\ restricted = <<>>
    /\ timeSlots = <<>>
    /\ currentTime = parseTime(startTimeStrOf(apartmentsData[1]))
    /\ endTime = parseTime(endTimeStrOf(apartmentsData[1]))
    /\ slots = <<>>

\* one iteration of the while loop that reaches slots.push
LoopIteration ==
    /\ pc \in {"loop", "loopAlt"}
    /\ LET apartment == apartmentsData[idx]
           duration  == loopDuration(apartment, pc)
       IN  /\ loopEntered(currentTime)
           /\ ~loopBreaks(currentTime, duration)
           /\ slots' = keptSlots(slots,
                  makeTimeSlot(apartment, TargetDate, bookingsData,
                               formatTime(currentTime),
                               formatTime(addMinutes(currentTime, duration))))
           /\ currentTime' = keptTime(addMinutes(currentTime, duration))
    /\ iterations' = countedIterations(iterations)
    /\ UNCHANGED <<apartmentsData, bookingsData, userHomeLocation, pc, idx, allSlots,
                   restricted, timeSlots, endTime, today>>
    /\ UNCHANGED <<gridVars, authVars, viewerVars>>

\* the loop condition fails or the break is taken: return slots
LoopExit ==
    /\ pc \in {"loop", "loopAlt"}
    /\ \/ ~loopEntered(currentTime)
       \/ loopBreaks(currentTime, loopDuration(apartmentsData[idx], pc))
    /\ pc' = IF pc = "loop" THEN "generated" ELSE "generatedAlt"
    /\ UNCHANGED <<apartmentsData, bookingsData, userHomeLocation, idx, allSlots,
                   restricted, timeSlots, currentTime, slots, endTime, today,
                   iterations>>
    /\ UNCHANGED <<gridVars, authVars, viewerVars>>

\* the wall clock passes midnight while the call is running: every later
\* `new Date()` is on the next day
MidnightPasses ==
    /\ pc \in {"loop", "loopAlt"}
    /\ today < MaxDay
    /\ today' = today + 1
    /\ UNCHANGED <<apartmentsData, bookingsData, userHomeLocation, pc, idx, allSlots,
                   restricted, timeSlots, currentTime, slots, endTime, iterations>>
    /\ UNCHANGED <<gridVars, authVars, viewerVars>>

NextGenerator == LoopIteration \/ LoopExit \/ MidnightPasses

SpecGenerator == InitGenerator /\ [][NextGenerator]_vars

\* the JavaScript engine keeps executing a started call; midnight need not come
FairGenerator == SpecGenerator /\ WF_vars(LoopIteration \/ LoopExit)

----------------------------------------------------------------------------
(* Passes and resolver calls over stored documents with bad time strings *)

\* operating hours as stored: 08:00-20:00 / 60 and 14:15-16:45 / 45, and the
\* hourly windows "25:00"-20:00, 08:00-"25:00" and ''-20:00
FaultyConfigs ==
    { [start |-> 480,    end |-> 1200, defaultSlotDuration |-> 60],
      [start |-> 855,    end |-> 1005, defaultSlotDuration |-> 45],
      [start |-> 1500,   end |-> 1200, defaultSlotDuration |-> 60],
      [start |-> 480,    end |-> 1500, defaultSlotDuration |-> 60],
      [start |-> NoTime, end |-> 1200, defaultSlotDuration |-> 60] }

\* reservation times as stored: 15:00-16:00, 15:00-"25:00", "25:00"-16:00
FaultyBookingShapes ==
    ApartmentIdSet \X { <<900, 960>>, <<900, 1500>>, <<1500, 960>> } \X {"booked"}

\* slots handed to the resolver: 15:00-16:00, 14:00-14:30, "25:00"-16:00,
\* 15:00-"25:00", "25:00"-"25:00"
FaultySlotShapes ==
    ApartmentIdSet
        \X { <<900, 960>>, <<840, 870>>, <<1500, 960>>, <<900, 1500>>, <<1500, 1500>> }
        \X {"available", "booked", "unavailable"}

InitFaulty ==
    /\ GridIdle /\ AuthIdle /\ ViewerIdle
    /\ today = 0
    /\ endTime = 0
    /\ iterations = 0
    /\ userHomeLocation \in HomeLocations
    /\ restricted = <<>>
    /\ timeSlots = <<>>
    /\ currentTime = 0
    /\ slots = <<>>
    /\ \/ /\ \E n \in 2..Len(ApartmentIds) : \E c \in [1..n -> FaultyConfigs] :
                 apartmentsData = apartmentList(n, c)
          /\ \E n \in 0..MaxBookings : \E f \in [1..n -> FaultyBookingShapes] :
                 bookingsData = bookingList(n, f)
          /\ pc = "generate"
          /\ idx = 1
          /\ allSlots = <<>>
       \/ /\ apartmentsData = <<>>
          /\ bookingsData = <<>>
          /\ pc = "call"
          /\ idx = 0
          /\ \E n \in 0..MaxSlots : \E f \in [1..n -> FaultySlotShapes] :
                 allSlots = slotList(n, f)

NextFaulty == GenerateNext \/ Restrict \/ Group \/ ApplyRestrictions

SpecFaulty == InitFaulty /\ [][NextFaulty]_vars

----------------------------------------------------------------------------
(* A direct call groupSlotsByApartment(timeSlots) *)

\* ids of apartment documents: those of the passes above and one that is also
\* the name of an inherited property
GroupedIds == ApartmentIdSet \cup {"constructor"}

\* slots 15:00-16:00 and 14:00-14:30, available or booked
GroupSlotShapes ==
    GroupedIds \X { <<900, 960>>, <<840, 870>> } \X {"available", "booked"}

InitGroup ==
    /\ GridIdle /\ AuthIdle /\ ViewerIdle
    /\ today = 0
    /\ endTime = 0
    /\ iterations = 0
    /\ apartmentsData = <<>>
    /\ bookingsData = <<>>
    /\ userHomeLocation = ""
    /\ pc = "callGroup"
    /\ idx = 0
    /\ \E n \in 0..MaxSlots : \E f \in [1..n -> GroupSlotShapes] :
           allSlots = slotList(n, f)
    /\ restricted = <<>>
    /\ timeSlots = <<>>
    /\ currentTime = 0
    /\ slots = <<>>

\* the call returns the Record or throws
GroupCall ==
    /\ pc = "callGroup"
    /\ LET grouped == groupSlotsByApartment(allSlots)
       IN  /\ timeSlots' = IF grouped.threw THEN timeSlots ELSE grouped.acc
           /\ pc' = IF grouped.threw THEN "groupThrew" ELSE "grouped"
    /\ UNCHANGED <<apartmentsData, bookingsData, userHomeLocation, idx, allSlots,
                   restricted, currentTime, slots, endTime, today, iterations>>
    /\ UNCHANGED <<gridVars, authVars, viewerVars>>

NextGroup == GroupCall

SpecGroup == InitGroup /\ [][NextGroup]_vars

----------------------------------------------------------------------------
(* DirectBookingGrid (components/TimeSlotGrid.tsx), the grid ScheduleViewer.tsx *)
(* renders from the bookings of the day, next to the engine's resolution of  *)
(* the slots generated for the same apartments, bookings and home.           *)

\* for (let hour = 8; hour < 20; hour++) timeSlots.push(`${hour}:00`)
gridTimeSlots == { 60 * hour : hour \in 8..19 }

\* parseInt(time.split(':')[0])
hourOf(time) == time \div 60

\* bookings.find(b => b.apartmentId === apartmentId && b.startTime === startTime)
isSlotBooked(list, apartmentId, startTime) ==
    \E k \in 1..Len(list) :
        list[k].apartmentId = apartmentId /\ list[k].startTime = startTime

\* within one hour of a booking of another apartment; never for the home
isTravelBufferSlot(list, home, apartmentId, startTime) ==
    IF apartmentId = home THEN FALSE
    ELSE \E k \in 1..Len(list) :
             /\ list[k].apartmentId # apartmentId
             /\ hourOf(startTime) - hourOf(list[k].startTime) \in {-1, 0, 1}

\* getSlotText; 'Reserved' (booked by the admin) and 'Booked' are both "Booked"
getSlotText(list, home, apartmentId, time) ==
    IF isSlotBooked(list, apartmentId, time) THEN "Booked"
    ELSE IF isTravelBufferSlot(list, home, apartmentId, time) THEN "Travel Buffer"
    ELSE "Available"

\* reservations that start on the hour: 15:00-16:00, 16:00-17:00, 15:00-17:00
GridBookingShapes ==
    ApartmentIdSet \X { <<900, 960>>, <<960, 1020>>, <<900, 1020>> } \X {"booked"}

InitGrid ==
    /\ AuthIdle /\ ViewerIdle
    /\ today = 0
    /\ endTime = 0
    /\ iterations = 0
    /\ \E n \in 2..Len(ApartmentIds) :
           apartmentsData = [i \in 1..n |-> mkApartment(i, StandardConfig)]
    /\ \E n \in 0..MaxBookings : \E f \in [1..n -> GridBookingShapes] :
           bookingsData = bookingList(n, f)
    \* every reservation is at one of the apartments fetched
    /\ \A k \in 1..Len(bookingsData) :
           \E i \in 1..Len(apartmentsData) :
               bookingsData[k].apartmentId = apartmentsData[i].id
    /\ userHomeLocation \in HomeLocations
    /\ pc = "generate"
    /\ idx = 1
    /\ allSlots = <<>>
    /\ restricted = <<>>
    /\ timeSlots = <<>>
    /\ currentTime = 0
    /\ slots = <<>>
    /\ gridText = <<>>

\* generateTimeSlots followed by applyTravelTimeRestrictions
ResolveGenerated ==
    /\ pc = "restrict"
    /\ restricted' = applyTravelTimeRestrictions(allSlots, userHomeLocation)
    /\ pc' = "render"
    /\ UNCHANGED <<apartmentsData, bookingsData, userHomeLocation, idx, allSlots, timeSlots,
                   currentTime, slots, endTime, today, iterations>>
    /\ UNCHANGED <<gridVars, authVars, viewerVars>>

\* the table body: one cell per hour and apartment
RenderGrid ==
    /\ pc = "render"
    /\ gridText' =
           [a \in {apartmentsData[i].id : i \in 1..Len(apartmentsData)} |->
               [time \in gridTimeSlots |->
                   getSlotText(bookingsData, userHomeLocation, a, time)]]
    /\ pc' = "rendered"
    /\ UNCHANGED <<apartmentsData, bookingsData, userHomeLocation, idx, allSlots,
                   restricted, timeSlots, currentTime, slots, endTime, today, iterations>>
    /\ UNCHANGED <<authVars, viewerVars>>

NextGrid == GenerateNext \/ ResolveGenerated \/ RenderGrid

SpecGrid == InitGrid /\ [][NextGrid]_vars

----------------------------------------------------------------------------
(* AuthProvider (contexts/AuthContext), PrivateRoute and the routes of App *)

\* accounts: alice has the profile of an admin, bob that of a user, carol has
\* no profile document (a new Google user)
Users == {"alice", "bob", "carol", "dave"}

NoProfile == <<>>

\* getDoc(doc(db, 'users', uid)): docSnap.exists() ? docSnap.data() : none
profileOf(uid) ==
    IF uid = "alice" THEN << [uid |-> "alice", role |-> "admin"] >>
    ELSE IF uid = "bob" THEN << [uid |-> "bob", role |-> "user"] >>
    ELSE IF uid = "dave" THEN << [uid |-> "dave", role |-> "user"] >>
    ELSE NoProfile

\* userData?.role
roleOf(data) == IF data = NoProfile THEN Null ELSE data[1].role

Paths == {"/", "/login", "/admin"}

\* what <PrivateRoute requiredRole> returns for the given context value
\* (Null: no requiredRole given)
PrivateRoute(children, requiredRole, ld, user, data) ==
    IF ld THEN "Loading"
    ELSE IF user = Null THEN "Navigate /login"
    ELSE IF requiredRole # Null /\ roleOf(data) # requiredRole THEN "Navigate /"
    ELSE children

\* what App renders at a path
elementAt(path, ld, user, data) ==
    IF ld THEN "Loading"
    ELSE IF path = "/login"
         THEN IF user # Null THEN "Navigate /" ELSE "LoginPage"
    ELSE IF path = "/admin" THEN PrivateRoute("AdminDashboard", "admin", ld, user, data)
    ELSE PrivateRoute("ScheduleViewer", Null, ld, user, data)

\* the path the router is at once every rendered <Navigate> has been followed;
\* a <Navigate> acts in the commit that renders it
RECURSIVE routed(_, _, _, _)
routed(path, ld, user, data) ==
    IF elementAt(path, ld, user, data) = "Navigate /login"
    THEN routed("/login", ld, user, data)
    ELSE IF elementAt(path, ld, user, data) = "Navigate /"
         THEN routed("/", ld, user, data)
         ELSE path

\* the page on screen
onScreen == elementAt(location, loading, currentUser, userData)

InitAuth ==
    /\ GridIdle /\ ViewerIdle
    /\ today = 0
    /\ endTime = 0
    /\ iterations = 0
    /\ apartmentsData = <<>>
    /\ bookingsData = <<>>
    /\ userHomeLocation = ""
    /\ pc = "mounted"
    /\ idx = 0
    /\ allSlots = <<>>
    /\ restricted = <<>>
    /\ timeSlots = <<>>
    /\ currentTime = 0
    /\ slots = <<>>
    /\ currentUser = Null
    /\ userData = NoProfile
    /\ loading = TRUE
    /\ pendingProfiles = {}
    /\ location \in Paths

\* onAuthStateChanged fires with a user (a sign-in, or the stored session when
\* the app starts): setCurrentUser(user), then fetchUserData(user.uid) is awaited
SignedIn ==
    /\ currentUser = Null
    /\ \E user \in Users :
          /\ currentUser' = user
          /\ pendingProfiles' = pendingProfiles \cup {user}
          /\ location' = routed(location, loading, user, userData)
    /\ UNCHANGED <<userData, loading>>
    /\ UNCHANGED <<passVars, gridVars, viewerVars>>

\* onAuthStateChanged fires with null (a sign-out, or no stored session when
\* the app starts): setCurrentUser(null); setUserData(null); setLoading(false)
SignedOut ==
    /\ currentUser # Null \/ (loading /\ pendingProfiles = {})
    /\ currentUser' = Null
    /\ userData' = NoProfile
    /\ loading' = FALSE
    /\ location' = routed(location, FALSE, Null, NoProfile)
    /\ UNCHANGED pendingProfiles
    /\ UNCHANGED <<passVars, gridVars, viewerVars>>

\* getDoc of a pending fetchUserData resolves: setUserData(the document or
\* null); back in the callback, setLoading(false)
ProfileLoaded ==
    /\ \E uid \in pendingProfiles :
          /\ userData' = profileOf(uid)
          /\ pendingProfiles' = pendingProfiles \ {uid}
          /\ location' = routed(location, FALSE, currentUser, profileOf(uid))
    /\ loading' = FALSE
    /\ UNCHANGED currentUser
    /\ UNCHANGED <<passVars, gridVars, viewerVars>>

\* getDoc rejects: the catch logs, userData stays; setLoading(false)
ProfileFailed ==
    /\ \E uid \in pendingProfiles : pendingProfiles' = pendingProfiles \ {uid}
    /\ loading' = FALSE
    /\ location' = routed(location, FALSE, currentUser, userData)
    /\ UNCHANGED <<currentUser, userData>>
    /\ UNCHANGED <<passVars, gridVars, viewerVars>>

\* navigation inside the app (a link, the browser's back button)
NavigateTo ==
    /\ ~loading
    /\ \E path \in Paths :
          /\ path # location
          /\ location' = routed(path, loading, currentUser, userData)
    /\ UNCHANGED <<currentUser, userData, loading, pendingProfiles>>
    /\ UNCHANGED <<passVars, gridVars, viewerVars>>

NextAuth == SignedIn \/ SignedOut \/ ProfileLoaded \/ ProfileFailed \/ NavigateTo

SpecAuth == InitAuth /\ [][NextAuth]_vars

----------------------------------------------------------------------------
(* The schedule page: ScheduleViewer.tsx, the effect that fetches and the   *)
(* handlers that re-run it.  Every run of the effect starts one fetchData   *)
(* call; nothing cancels a call when the effect runs again.  isRefreshing   *)
(* and lastUpdated are not read by fetchData and are left out.  Here        *)
(* apartmentsData and bookingsData are the two Firestore collections.       *)

\* effect runs per page visit
MaxFetches == 3

\* dates the date picker offers: 1 .. MaxDate
MaxDate == 2

ViewerDates == 1..MaxDate

\* the reservation stored for a date
bookingOn(d) ==
    [id |-> d, apartmentId |-> ApartmentIds[1], date |-> d,
     startTime |-> 900, endTime |-> 960, status |-> "booked"]

\* query(collection(db, 'bookings'), where('date', '==', date), orderBy('startTime'))
getBookingsByDate(date) == SelectSeq(bookingsData, LAMBDA b : b.date = date)

\* a fetchData call that has just set isLoading and awaits getApartments()
startedFetch(date) == [date |-> date, pc |-> "getApartments", outcome |-> "pending"]

inFlight(i) == i \in 1..Len(fetches) /\ fetches[i].pc # "settled"

settle(i, outcome) ==
    [fetches EXCEPT ![i] = [@ EXCEPT !.pc = "settled", !.outcome = outcome]]

InitViewer ==
    /\ GridIdle /\ AuthIdle
    /\ today = 0
    /\ endTime = 0
    /\ iterations = 0
    /\ \E n \in {0, 2} :
          apartmentsData = apartmentList(n, [i \in 1..n |-> StandardConfig])
    /\ \E ds \in SUBSET ViewerDates :
          bookingsData = SelectSeq([d \in ViewerDates |-> bookingOn(d)],
                                   LAMBDA b : b.date \in ds)
    /\ userHomeLocation \in {"", ApartmentIds[2]}
    /\ pc = "viewing"
    /\ idx = 0
    /\ allSlots = <<>>
    /\ restricted = <<>>
    /\ timeSlots = <<>>
    /\ currentTime = 0
    /\ slots = <<>>
    /\ selectedDate \in ViewerDates
    /\ refreshCounter = 1
    /\ apartmentsState = <<>>
    /\ bookingsState = <<>>
    /\ isLoading = TRUE
    /\ fetches = << startedFetch(selectedDate) >>

\* handleDateChange: setSelectedDate(date); the effect runs again and the new
\* fetchData call does setIsLoading(true)
ChangeDate ==
    /\ Len(fetches) < MaxFetches
    /\ \E date \in ViewerDates \ {selectedDate} :
          /\ selectedDate' = date
          /\ fetches' = Append(fetches, startedFetch(date))
    /\ isLoading' = TRUE
    /\ UNCHANGED <<refreshCounter, apartmentsState, bookingsState>>
    /\ UNCHANGED <<passVars, gridVars, authVars>>

\* handleRefresh: setBookings([]); setRefreshCounter(Date.now()); the effect
\* runs again and the new fetchData call does setIsLoading(true)
HandleRefresh ==
    /\ Len(fetches) < MaxFetches
    /\ bookingsState' = <<>>
    /\ refreshCounter' = refreshCounter + 1
    /\ fetches' = Append(fetches, startedFetch(selectedDate))
    /\ isLoading' = TRUE
    /\ UNCHANGED <<selectedDate, apartmentsState>>
    /\ UNCHANGED <<passVars, gridVars, authVars>>

\* getApartments() resolves: setApartments; with no apartment
\* setIsLoading(false) and return; otherwise setBookings([]) and
\* getBookingsByDate is awaited
ApartmentsResolved(i) ==
    /\ inFlight(i) /\ fetches[i].pc = "getApartments"
    /\ apartmentsState' = apartmentsData
    /\ IF Len(apartmentsData) = 0
       THEN /\ isLoading' = FALSE
            /\ fetches' = settle(i, "noApartments")
            /\ UNCHANGED bookingsState
       ELSE /\ bookingsState' = <<>>
            /\ fetches' = [fetches EXCEPT ![i].pc = "getBookings"]
            /\ UNCHANGED isLoading
    /\ UNCHANGED <<selectedDate, refreshCounter>>
    /\ UNCHANGED <<passVars, gridVars, authVars>>

\* the first getBookingsByDate resolves: shouldForceRefresh is always true
\* (refreshCounter is a Date.now()), so an empty result waits for the retry
\* timer; a non-empty one goes to setBookings and setIsLoading(false)
BookingsResolved(i) ==
    /\ inFlight(i) /\ fetches[i].pc = "getBookings"
    /\ LET found == getBookingsByDate(fetches[i].date)
       IN  IF Len(found) = 0
           THEN /\ fetches' = [fetches EXCEPT ![i].pc = "retryDelay"]
                /\ UNCHANGED <<bookingsState, isLoading>>
           ELSE /\ bookingsState' = found
                /\ isLoading' = FALSE
                /\ fetches' = settle(i, "loaded")
    /\ UNCHANGED <<selectedDate, refreshCounter, apartmentsState>>
    /\ UNCHANGED <<passVars, gridVars, authVars>>

\* the 1000 ms timer fires: getBookingsByDate is called again
RetryTimer(i) ==
    /\ inFlight(i) /\ fetches[i].pc = "retryDelay"
    /\ fetches' = [fetches EXCEPT ![i].pc = "retryBookings"]
    /\ UNCHANGED <<selectedDate, refreshCounter, apartmentsState, bookingsState, isLoading>>
    /\ UNCHANGED <<passVars, gridVars, authVars>>

\* the second getBookingsByDate resolves: setBookings; setIsLoading(false)
RetryResolved(i) ==
    /\ inFlight(i) /\ fetches[i].pc = "retryBookings"
    /\ bookingsState' = getBookingsByDate(fetches[i].date)
    /\ isLoading' = FALSE
    /\ fetches' = settle(i, "loaded")
    /\ UNCHANGED <<selectedDate, refreshCounter, apartmentsState>>
    /\ UNCHANGED <<passVars, gridVars, authVars>>

\* getApartments or getBookingsByDate rejects: the catch does setIsLoading(false)
FetchRejected(i) ==
    /\ inFlight(i) /\ fetches[i].pc \in {"getApartments", "getBookings", "retryBookings"}
    /\ isLoading' = FALSE
    /\ fetches' = settle(i, "failed")
    /\ UNCHANGED <<selectedDate, refreshCounter, apartmentsState, bookingsState>>
    /\ UNCHANGED <<passVars, gridVars, authVars>>

\* the next step of fetchData call i
FetchStep(i) ==
    \/ ApartmentsResolved(i)
    \/ BookingsResolved(i)
    \/ RetryTimer(i)
    \/ RetryResolved(i)
    \/ FetchRejected(i)

NextViewer ==
    \/ ChangeDate
    \/ HandleRefresh
    \/ \E i \in 1..MaxFetches : FetchStep(i)

SpecViewer == InitViewer /\ [][NextViewer]_vars

\* every promise settles and every timer fires
FairViewer == SpecViewer /\ \A i \in 1..MaxFetches : WF_vars(FetchStep(i))

----------------------------------------------------------------------------
(* Properties of the slot generator *)

\* the slots of allSlots that belong to apartment a, in order
slotsOfApartment(a) == SelectSeq(allSlots, LAMBDA s : s.apartmentId = a)

\* C1: for every apartment already generated, with window [S,E) and slot
\* duration d > 0, its slots start at S, each ends d after it starts, each
\* starts where the previous one ends, none ends after E, and there are
\* floor((E - S) / d) of them (a trailing partial slot is dropped).
C1_Tiling ==
    \A i \in 1..Len(apartmentsData) :
        i < idx =>
            LET S  == apartmentsData[i].start
                E  == apartmentsData[i].end
                d  == apartmentsData[i].defaultSlotDuration
                sl == slotsOfApartment(apartmentsData[i].id)
            IN  /\ Len(sl) = (E - S) \div d
                /\ Len(sl) > 0 => sl[1].startTime = S
                /\ \A k \in 1..Len(sl) :
                      /\ sl[k].endTime = sl[k].startTime + d
                      /\ sl[k].endTime <= E
                      /\ k > 1 => sl[k].startTime = sl[k - 1].endTime

\* the bookings of bookingsData whose apartment, start and end equal the slot's
matchingBookings(slot) ==
    { bookingsData[k] : k \in { j \in 1..Len(bookingsData) :
          /\ bookingsData[j].apartmentId = slot.apartmentId
          /\ bookingsData[j].startTime = slot.startTime
          /\ bookingsData[j].endTime = slot.endTime } }

\* C2: a generated slot is 'booked', with a matching reservation attached,
\* exactly when the reservation list holds a reservation with the slot's
\* apartment, start and end; otherwise it is 'available' with none attached.
C2_BookedIffExactMatch ==
    \A i \in 1..Len(allSlots) :
        IF matchingBookings(allSlots[i]) # {}
        THEN /\ allSlots[i].status = "booked"
             /\ Len(allSlots[i].booking) = 1
             /\ allSlots[i].booking[1] \in matchingBookings(allSlots[i])
        ELSE /\ allSlots[i].status = "available"
             /\ allSlots[i].booking = NoBooking

\* a finished generation with a booked slot, and a reservation that starts
\* with a slot of its apartment but ends elsewhere (so it is not attached)
C2_Witness ==
    /\ pc = "restrict"
    /\ \E i \in 1..Len(allSlots) : allSlots[i].status = "booked"
    /\ \E i \in 1..Len(allSlots) : \E k \in 1..Len(bookingsData) :
          /\ bookingsData[k].apartmentId = allSlots[i].apartmentId
          /\ bookingsData[k].startTime = allSlots[i].startTime
          /\ bookingsData[k].endTime # allSlots[i].endTime
          /\ allSlots[i].status = "available"

----------------------------------------------------------------------------
(* Properties of the resolver.  They are stated on the slots' own start    *)
(* and end minutes (all slots of a call are on one date), not through the  *)
(* operators above.                                                        *)

occupied(s) == s.status \in {"booked", "unavailable"}

\* s's start or end lies in [b.start - 30, b.end + 30], or s spans it
touchesBuffer(s, b) ==
    \/ b.startTime - 30 <= s.startTime /\ s.startTime <= b.endTime + 30
    \/ b.startTime - 30 <= s.endTime /\ s.endTime <= b.endTime + 30
    \/ s.startTime <= b.startTime - 30 /\ s.endTime >= b.endTime + 30

\* s starts in [b.start, b.end), or ends in (b.start, b.end], or contains b
overlapsDirectly(s, b) ==
    \/ b.startTime <= s.startTime /\ s.startTime < b.endTime
    \/ b.startTime < s.endTime /\ s.endTime <= b.endTime
    \/ s.startTime <= b.startTime /\ s.endTime >= b.endTime

\* positions of the occupied slots of another apartment than slot i's
othersOccupied(i) ==
    { j \in 1..Len(allSlots) :
        occupied(allSlots[j]) /\ allSlots[j].apartmentId # allSlots[i].apartmentId }

\* slot i is within the travel buffer of an occupied slot of a non-home apartment
travelHit(i) ==
    \E j \in othersOccupied(i) :
        /\ allSlots[j].apartmentId # userHomeLocation
        /\ touchesBuffer(allSlots[i], allSlots[j])

\* slot i overlaps an occupied slot of the home apartment
homeHit(i) ==
    \E j \in othersOccupied(i) :
        /\ allSlots[j].apartmentId = userHomeLocation
        /\ overlapsDirectly(allSlots[i], allSlots[j])

C4_HomeOverlap ==
    pc = "returned" =>
        \A i \in 1..Len(allSlots) :
            allSlots[i].status = "available" =>
                /\ restricted[i].status = "unavailable" => homeHit(i)
                /\ (\A j \in othersOccupied(i) :
                        allSlots[j].apartmentId = userHomeLocation)
                   => /\ restricted[i].status =
                             IF homeHit(i) THEN "unavailable" ELSE "available"
                      /\ (\A j \in othersOccupied(i) :
                              \/ allSlots[i].endTime <= allSlots[j].startTime
                              \/ allSlots[i].startTime >= allSlots[j].endTime)
                         => restricted[i].status = "available"

\* a call with home-apartment slot 15:00-16:00 booked, in which 16:00-17:00
\* elsewhere (touching) stays available and 14:00-17:00 elsewhere (containing)
\* becomes unavailable
C4_Witness ==
    /\ pc = "returned"
    /\ \E i, j, k \in 1..Len(allSlots) :
          /\ allSlots[j].status = "booked"
          /\ allSlots[j].apartmentId = userHomeLocation
          /\ allSlots[j].startTime = 900 /\ allSlots[j].endTime = 960
          /\ allSlots[i].status = "available" /\ allSlots[k].status = "available"
          /\ allSlots[i].apartmentId # userHomeLocation
          /\ allSlots[k].apartmentId # userHomeLocation
          /\ allSlots[i].startTime = 960 /\ allSlots[i].endTime = 1020
          /\ allSlots[k].startTime = 840 /\ allSlots[k].endTime = 1020
          /\ restricted[i].status = "available"
          /\ restricted[k].status = "unavailable"

\* C6: the resolver (either variant) returns every slot that came in 'booked'
\* or 'unavailable' unchanged and at the same position.
C6_OccupiedUntouched ==
    pc \in {"returned", "returnedAlt"} =>
        /\ Len(restricted) = Len(allSlots)
        /\ \A i \in 1..Len(allSlots) :
              occupied(allSlots[i]) => restricted[i] = allSlots[i]

\* a call in which an 'unavailable' slot lies in the buffer of a booked slot of
\* another, non-home apartment, and an available slot was restricted
C6_Witness ==
    /\ pc = "returned"
    /\ \E i, j, k \in 1..Len(allSlots) :
          /\ allSlots[i].status = "unavailable"
          /\ allSlots[j].status = "booked"
          /\ allSlots[j].apartmentId # allSlots[i].apartmentId
          /\ allSlots[j].apartmentId # userHomeLocation
          /\ touchesBuffer(allSlots[i], allSlots[j])
          /\ allSlots[k].status = "available"
          /\ restricted[k].status = "travel-restricted"
          /\ restricted[i] = allSlots[i]

\* C7: an available slot changes status only if some occupied slot belongs to
\* another apartment; when every occupied slot is of the slot's own apartment
\* the slot is returned unchanged, for any home id (either variant).
C7_NoSelfConflict ==
    pc \in {"returned", "returnedAlt"} =>
        \A i \in 1..Len(allSlots) :
            (allSlots[i].status = "available" /\ othersOccupied(i) = {})
                => restricted[i] = allSlots[i]

\* a call whose occupied slots all belong to the apartment of an available
\* slot that overlaps one of them and is still available
C7_Witness ==
    /\ pc = "returned"
    /\ \E i, j \in 1..Len(allSlots) :
          /\ allSlots[i].status = "available"
          /\ occupied(allSlots[j])
          /\ allSlots[j].apartmentId = allSlots[i].apartmentId
          /\ overlapsDirectly(allSlots[i], allSlots[j])
          /\ othersOccupied(i) = {}
          /\ restricted[i].status = "available"

\* the occupied positions of allSlots and their reorderings
occupiedPositions == { k \in 1..Len(allSlots) : occupied(allSlots[k]) }

reorderings ==
    { f \in [occupiedPositions -> occupiedPositions] :
        \A a, b \in occupiedPositions : a # b => f[a] # f[b] }

\* allSlots with its occupied slots rearranged by f, all other slots in place
reordered(f) ==
    [k \in 1..Len(allSlots) |->
        IF k \in occupiedPositions THEN allSlots[f[k]] ELSE allSlots[k]]

\* the occupied slots of other apartments that slot i conflicts with, each
\* by the rule of its own apartment (home: direct overlap, else: buffer)
conflictsOf(i) ==
    { j \in othersOccupied(i) :
        IF allSlots[j].apartmentId = userHomeLocation
        THEN overlapsDirectly(allSlots[i], allSlots[j])
        ELSE touchesBuffer(allSlots[i], allSlots[j]) }

\* C8 as stated: however the occupied slots of the input are ordered, every
\* available slot gets the same final status.
C8_OrderIndependent ==
    pc = "returned" =>
        \A f \in reorderings :
            \A k \in 1..Len(allSlots) :
                allSlots[k].status = "available" =>
                    applyTravelTimeRestrictions(reordered(f), userHomeLocation)[k].status
                        = restricted[k].status

\* C8, amended: however the occupied slots are ordered, an available slot is
\* left 'available' by both orders or by neither, and gets the same status
\* whenever the occupied slots it conflicts with are all at the home apartment
\* or all at non-home apartments.
C8_OrderIndependentSameCategory ==
    pc = "returned" =>
        \A f \in reorderings :
            \A k \in 1..Len(allSlots) :
                allSlots[k].status = "available" =>
                    LET other ==
                            applyTravelTimeRestrictions(reordered(f), userHomeLocation)[k]
                    IN  /\ (other.status = "available")
                               <=> (restricted[k].status = "available")
                        /\ (\A a, b \in conflictsOf(k) :
                                (allSlots[a].apartmentId = userHomeLocation)
                                    <=> (allSlots[b].apartmentId = userHomeLocation))
                           => other.status = restricted[k].status

\* a call with two different occupied slots, of two apartments of one
\* category, that both conflict with an available slot of a third
C8_Witness ==
    /\ pc = "returned"
    /\ \E k \in 1..Len(allSlots) : \E a, b \in conflictsOf(k) :
          /\ allSlots[k].status = "available"
          /\ allSlots[a].apartmentId # allSlots[b].apartmentId
          /\ allSlots[a].apartmentId # userHomeLocation
          /\ allSlots[b].apartmentId # userHomeLocation
          /\ restricted[k].status = "travel-restricted"

----------------------------------------------------------------------------
(* Properties of the whole pass *)

TamarindAndQuayside ==
    << mkApartment(1, StandardConfig), mkApartment(2, StandardConfig) >>

C9_HomeExemption ==
    (pc \in {"group", "done"} /\ userHomeLocation # "")
    => /\ Len(restricted) = Len(allSlots)
       /\ \A i \in 1..Len(allSlots) :
             restricted[i].status = "travel-restricted" =>
                 \E j \in othersOccupied(i) :
                     /\ allSlots[j].apartmentId # userHomeLocation
                     /\ touchesBuffer(allSlots[i], allSlots[j])
       /\ (\A k \in 1..Len(bookingsData) :
               bookingsData[k].apartmentId = userHomeLocation)
          => \A i \in 1..Len(allSlots) :
                 /\ restricted[i].status # "travel-restricted"
                 /\ allSlots[i].apartmentId = userHomeLocation
                        => restricted[i] = allSlots[i]
                 /\ allSlots[i].apartmentId # userHomeLocation
                        => restricted[i].status =
                               IF \E j \in 1..Len(allSlots) :
                                      /\ allSlots[j].status = "booked"
                                      /\ overlapsDirectly(allSlots[i], allSlots[j])
                               THEN "unavailable" ELSE "available"

\* a finished pass with the home slot 15:00-16:00 booked, a slot of another
\* apartment that ends at 15:00 still available and one that overlaps
\* unavailable
C9_Witness ==
    /\ pc = "done"
    /\ \E i, j, k \in 1..Len(allSlots) :
          /\ allSlots[j].apartmentId = userHomeLocation
          /\ restricted[j].status = "booked"
          /\ allSlots[j].startTime = 900 /\ allSlots[j].endTime = 960
          /\ allSlots[i].apartmentId # userHomeLocation
          /\ allSlots[k].apartmentId # userHomeLocation
          /\ allSlots[i].endTime = 900 /\ restricted[i].status = "available"
          /\ overlapsDirectly(allSlots[k], allSlots[j])
          /\ restricted[k].status = "unavailable"
    /\ \A k \in 1..Len(bookingsData) : bookingsData[k].apartmentId = userHomeLocation

\* C10: for any bookings at other apartments, no slot of the requester's home
\* apartment is marked 'travel-restricted'.
C10_HomeNeverTravelRestricted ==
    pc \in {"group", "done"} =>
        \A i \in 1..Len(restricted) :
            restricted[i].apartmentId = userHomeLocation
                => restricted[i].status # "travel-restricted"

----------------------------------------------------------------------------
(* Properties of a single generateTimeSlots call *)

returnedFromGenerate == pc \in {"generated", "generatedAlt"}

\* slot duration zero or negative, or window start equal to or after its end
misconfigured(apartment) ==
    \/ apartment.defaultSlotDuration <= 0
    \/ apartment.start >= apartment.end

\* C11: a call for an apartment whose slot duration is zero or negative, or
\* whose window start is equal to or later than its end, returns the empty
\* slot sequence.
C11_MisconfiguredEmpty ==
    (returnedFromGenerate /\ misconfigured(apartmentsData[1])) => slots = <<>>

\* C19: every call of generateTimeSlots returns, whatever the apartment's
\* slot duration and window are.
C19_Terminates == <>returnedFromGenerate

----------------------------------------------------------------------------
(* Reservations off the grid *)

\* what the forEach of a pass over the given apartments and reservations
\* collects, and what the pass then hands to groupSlotsByApartment
RECURSIVE collectSlots(_, _, _)
collectSlots(apartments, k, bookings) ==
    IF k > Len(apartments) THEN <<>>
    ELSE generateTimeSlots(apartments[k], TargetDate,
             SelectSeq(bookings, LAMBDA b : b.apartmentId = apartments[k].id))
         \o collectSlots(apartments, k + 1, bookings)

passResult(apartments, bookings, home) ==
    IF home # ""
    THEN applyTravelTimeRestrictions(collectSlots(apartments, 1, bookings), home)
    ELSE collectSlots(apartments, 1, bookings)

\* reservation b has the start and the end of a generated slot of its apartment
onGrid(b) ==
    \E i \in 1..Len(allSlots) :
        /\ allSlots[i].apartmentId = b.apartmentId
        /\ allSlots[i].startTime = b.startTime
        /\ allSlots[i].endTime = b.endTime

\* C12: a reservation whose start and end are not those of a slot of its
\* apartment's grid is attached to no slot, and the pass ends as it would
\* without that reservation; when no reservation is on the grid every slot of
\* every apartment is 'available' after generation and after restriction.
C12_UnattachedInvisible ==
    pc \in {"group", "done"} =>
        /\ \A k \in 1..Len(bookingsData) :
              ~onGrid(bookingsData[k]) =>
                  \A i \in 1..Len(allSlots) : allSlots[i].booking # <<bookingsData[k]>>
        /\ restricted =
               passResult(apartmentsData, SelectSeq(bookingsData, onGrid), userHomeLocation)
        /\ (\A k \in 1..Len(bookingsData) : ~onGrid(bookingsData[k]))
           => /\ Len(restricted) = Len(allSlots)
              /\ \A i \in 1..Len(allSlots) :
                    /\ allSlots[i].status = "available"
                    /\ restricted[i].status = "available"

\* a finished pass for a requester with a home, with the reservation
\* 15:15-16:15 at an hourly apartment that is not the home, whose slots
\* 15:00-16:00 and 16:00-17:00 came out 'available', as did a slot 15:00-16:00
\* of another apartment
C12_Witness ==
    /\ pc = "done"
    /\ userHomeLocation # ""
    /\ \E k \in 1..Len(bookingsData) : \E i, j, o \in 1..Len(allSlots) :
          /\ bookingsData[k].startTime = 915 /\ bookingsData[k].endTime = 975
          /\ bookingsData[k].apartmentId # userHomeLocation
          /\ allSlots[i].apartmentId = bookingsData[k].apartmentId
          /\ allSlots[j].apartmentId = bookingsData[k].apartmentId
          /\ allSlots[i].startTime = 900 /\ allSlots[i].endTime = 960
          /\ allSlots[j].startTime = 960 /\ allSlots[j].endTime = 1020
          /\ restricted[i].status = "available"
          /\ restricted[j].status = "available"
          /\ allSlots[o].apartmentId # bookingsData[k].apartmentId
          /\ allSlots[o].startTime = 900 /\ allSlots[o].endTime = 960
          /\ restricted[o].status = "available"

----------------------------------------------------------------------------
(* Dependence on the clock *)

\* C13: two calls of generateTimeSlots with the same apartment, date and
\* reservations return the same sequence: a call for a well-configured
\* apartment returns what the call with these arguments returns when it is
\* made within one day.
C13_Deterministic ==
    (returnedFromGenerate /\ ~misconfigured(apartmentsData[1]))
        => slots = generateTimeSlots(apartmentsData[1], TargetDate, bookingsData)

----------------------------------------------------------------------------
(* Shape of the resolver's result *)

returnedFromResolver == pc \in {"returned", "returnedAlt"}

\* C14: the resolver (either variant) returns as many slots as it was given,
\* and the slot at each position has the apartment, date, start and end of the
\* input slot at that position.
C14_OrderPreserved ==
    returnedFromResolver =>
        /\ Len(restricted) = Len(allSlots)
        /\ \A i \in 1..Len(allSlots) :
              /\ restricted[i].apartmentId = allSlots[i].apartmentId
              /\ restricted[i].date = allSlots[i].date
              /\ restricted[i].startTime = allSlots[i].startTime
              /\ restricted[i].endTime = allSlots[i].endTime

\* a call on three slots that are not in order of start time, the first given
\* a new status and the last returned as it was
C14_Witness ==
    /\ pc = "returned"
    /\ Len(allSlots) = 3
    /\ allSlots[1].startTime > allSlots[2].startTime
    /\ allSlots[1].apartmentId # allSlots[3].apartmentId
    /\ restricted[1].status # allSlots[1].status
    /\ restricted[3] = allSlots[3]

----------------------------------------------------------------------------
(* Bad time strings *)

wellFormedSlot(s) == wellFormedTime(s.startTime) /\ wellFormedTime(s.endTime)

wellFormedHours(apartment) ==
    wellFormedTime(apartment.start) /\ wellFormedTime(apartment.end)

\* the window strings generateTimeSlots ends up parsing are both parsable
parsableHours(apartment) ==
    wellFormedTime(startTimeStrOf(apartment)) /\ wellFormedTime(endTimeStrOf(apartment))

\* C15 as stated: an apartment with a malformed operating-hour string gets no
\* slots, a slot with a malformed time is returned as it came (it takes part
\* in no conflict), and everything else ends as it would if the bad
\* apartments, reservations and slots were absent.
C15_FailureIsolation ==
    /\ pc \in {"group", "done"} =>
          /\ \A a \in 1..Len(apartmentsData) :
                ~wellFormedHours(apartmentsData[a]) =>
                    \A i \in 1..Len(allSlots) :
                        allSlots[i].apartmentId # apartmentsData[a].id
          /\ restricted =
                 passResult(SelectSeq(apartmentsData, wellFormedHours),
                            SelectSeq(bookingsData, wellFormedSlot), userHomeLocation)
    /\ pc = "returned" =>
          /\ \A i \in 1..Len(allSlots) :
                ~wellFormedSlot(allSlots[i]) => restricted[i] = allSlots[i]
          /\ SelectSeq(restricted, wellFormedSlot) =
                 applyTravelTimeRestrictions(SelectSeq(allSlots, wellFormedSlot),
                                             userHomeLocation)

\* C15, amended: an apartment whose operating-hour strings, after the
\* replacement of an empty one by 08:00 / 20:00, do not both parse gets no
\* slots; a reservation with a malformed time is attached to no slot; a slot
\* with a malformed time is returned as it came when it is occupied or when
\* both its times are malformed; and everything else ends as it would if those
\* apartments, the malformed reservations and the malformed slots were absent.
C15_FailureIsolationParsable ==
    /\ pc \in {"group", "done"} =>
          /\ \A a \in 1..Len(apartmentsData) :
                ~parsableHours(apartmentsData[a]) =>
                    \A i \in 1..Len(allSlots) :
                        allSlots[i].apartmentId # apartmentsData[a].id
          /\ \A k \in 1..Len(bookingsData) :
                ~wellFormedSlot(bookingsData[k]) =>
                    \A i \in 1..Len(allSlots) : allSlots[i].booking # <<bookingsData[k]>>
          /\ restricted =
                 passResult(SelectSeq(apartmentsData, parsableHours),
                            SelectSeq(bookingsData, wellFormedSlot), userHomeLocation)
    /\ pc = "returned" =>
          /\ \A i \in 1..Len(allSlots) :
                ( /\ ~wellFormedSlot(allSlots[i])
                  /\ \/ occupied(allSlots[i])
                     \/ ~wellFormedTime(allSlots[i].startTime)
                           /\ ~wellFormedTime(allSlots[i].endTime) )
                => restricted[i] = allSlots[i]
          /\ SelectSeq(restricted, wellFormedSlot) =
                 applyTravelTimeRestrictions(SelectSeq(allSlots, wellFormedSlot),
                                             userHomeLocation)

\* a finished pass with an apartment whose start is "25:00", a reservation
\* ending at "25:00" that starts with a slot of its apartment, which was
\* generated 'available', and a slot restricted on account of a well-formed
\* reservation
C15_Witness ==
    /\ pc = "done"
    /\ \E a \in 1..Len(apartmentsData) :
          /\ apartmentsData[a].start = 1500
          /\ \A i \in 1..Len(allSlots) : allSlots[i].apartmentId # apartmentsData[a].id
    /\ \E k \in 1..Len(bookingsData) : \E i \in 1..Len(allSlots) :
          /\ bookingsData[k].endTime = 1500
          /\ allSlots[i].apartmentId = bookingsData[k].apartmentId
          /\ allSlots[i].startTime = bookingsData[k].startTime
          /\ allSlots[i].status = "available"
    /\ \E i \in 1..Len(restricted) : restricted[i].status = "travel-restricted"

----------------------------------------------------------------------------
(* A requester without a home apartment *)

\* C16: in a pass for a requester without home id, a slot generated
\* 'available' ends 'travel-restricted' exactly when it lies in the 30-minute
\* buffered interval of a booked slot of another apartment and 'available'
\* otherwise, no slot ends 'unavailable', and a slot generated 'booked' ends
\* 'booked'.
C16_AbsentHomeBuffered ==
    (pc \in {"group", "done"} /\ userHomeLocation = "")
    => /\ Len(restricted) = Len(allSlots)
       /\ \A i \in 1..Len(allSlots) :
             /\ allSlots[i].status = "booked" => restricted[i].status = "booked"
             /\ restricted[i].status # "unavailable"
             /\ allSlots[i].status = "available"
                    => restricted[i].status =
                           IF \E j \in othersOccupied(i) :
                                  touchesBuffer(allSlots[i], allSlots[j])
                           THEN "travel-restricted" ELSE "available"

----------------------------------------------------------------------------
(* The status of a slot through one pass *)

\* the status of every slot as generated and, once the restriction step is
\* over, as resolved
statusesOfPass ==
    /\ \A i \in 1..Len(allSlots) : allSlots[i].status \in {"available", "booked"}
    /\ pc \in {"group", "done"} =>
          /\ Len(restricted) = Len(allSlots)
          /\ \A i \in 1..Len(allSlots) :
                \/ restricted[i].status = allSlots[i].status
                \/ /\ allSlots[i].status = "available"
                   /\ restricted[i].status \in {"unavailable", "travel-restricted"}
    /\ pc = "done" =>
          \A a \in DOMAIN timeSlots :
              timeSlots[a] = SelectSeq(restricted, LAMBDA s : s.apartmentId = a)

\* a step of the pass leaves every slot generated so far, and every resolved
\* slot, as it is
statusesKept ==
    /\ \A i \in 1..Len(allSlots) : allSlots'[i] = allSlots[i]
    /\ \A i \in 1..Len(restricted) : restricted'[i] = restricted[i]

\* C17: in a pass every slot is generated 'available' or 'booked'; the
\* restriction step leaves its status or turns 'available' into 'unavailable'
\* or 'travel-restricted'; it never sets 'booked' or returns a slot to
\* 'available'; no other step of the pass changes a status, so each slot
\* changes at most once.
C17_StatusTransitions == []statusesOfPass /\ [][statusesKept]_vars

\* a finished pass in which one slot went from 'available' to 'unavailable',
\* one from 'available' to 'travel-restricted', one stayed 'available' and one
\* stayed 'booked'
C17_Witness ==
    /\ pc = "done"
    /\ \E i, j, k, l \in 1..Len(allSlots) :
          /\ allSlots[i].status = "available" /\ restricted[i].status = "unavailable"
          /\ allSlots[j].status = "available"
          /\ restricted[j].status = "travel-restricted"
          /\ allSlots[k].status = "available" /\ restricted[k].status = "available"
          /\ allSlots[l].status = "booked" /\ restricted[l].status = "booked"

----------------------------------------------------------------------------
(* The resolver and its argument *)

\* a call leaves the list it was given, and every slot in it, as they were, so
\* that resolving the list again, for any home id, gives what resolving the
\* list as it was before the call gives
inputKept ==
    pc = "call" =>
        /\ allSlots' = allSlots
        /\ \A h \in HomeLocations :
              applyTravelTimeRestrictions(allSlots', h)
                  = applyTravelTimeRestrictions(allSlots, h)

----------------------------------------------------------------------------
(* Several conflicts for one slot *)

\* the first position of the input that holds an occupied slot of another
\* apartment with which slot i conflicts (0 when there is none)
firstConflict(i) ==
    IF conflictsOf(i) = {} THEN 0
    ELSE CHOOSE j \in conflictsOf(i) : \A k \in conflictsOf(i) : j <= k

\* C20: an available slot that conflicts with no occupied slot of another
\* apartment stays 'available'; otherwise its status is decided by the first
\* such slot in input order alone: 'unavailable' if that slot is at the home
\* apartment, 'travel-restricted' if not, whatever the conflicting occupied
\* slots after it are.
C20_FirstConflictWins ==
    pc = "returned" =>
        \A i \in 1..Len(allSlots) :
            allSlots[i].status = "available" =>
                restricted[i].status =
                    IF firstConflict(i) = 0 THEN "available"
                    ELSE IF allSlots[firstConflict(i)].apartmentId = userHomeLocation
                         THEN "unavailable"
                         ELSE "travel-restricted"

\* a call in which an available slot conflicts first with a home slot and then
\* with a slot of a third apartment, and is returned 'unavailable'
C20_Witness ==
    /\ pc = "returned"
    /\ \E i \in 1..Len(allSlots) : \E a, b \in conflictsOf(i) :
          /\ allSlots[i].status = "available"
          /\ a < b
          /\ a = firstConflict(i)
          /\ allSlots[a].apartmentId = userHomeLocation
          /\ allSlots[b].apartmentId # userHomeLocation
          /\ restricted[i].status = "unavailable"

----------------------------------------------------------------------------
(* Slots and midnight *)

\* the apartment document of apartmentsData with the given id
apartmentOf(id) ==
    CHOOSE a \in {apartmentsData[i] : i \in 1..Len(apartmentsData)} : a.id = id

\* C21: every generated slot ends later on the day than it starts, and ends
\* one slot duration of its apartment after it starts; no slot runs up to or
\* past midnight (a 22:00-23:30 window with 60-minute slots gives no slot
\* 23:00-00:00).
C21_NoMidnightWrap ==
    \A i \in 1..Len(allSlots) :
        /\ allSlots[i].endTime > allSlots[i].startTime
        /\ allSlots[i].endTime =
               allSlots[i].startTime
                   + apartmentOf(allSlots[i].apartmentId).defaultSlotDuration

----------------------------------------------------------------------------
(* Attached reservations *)

\* the positions of allSlots to which reservation b is attached
attachedAt(b) == { i \in 1..Len(allSlots) : allSlots[i].booking = <<b>> }

\* C22: every generated slot marked 'booked' carries one reservation of the
\* reservation list, whose apartment, date, start and end are the slot's; and
\* no reservation is attached to more than one generated slot.
C22_BookedCarriesReservation ==
    /\ \A i \in 1..Len(allSlots) :
          allSlots[i].status = "booked" =>
              /\ Len(allSlots[i].booking) = 1
              /\ \E k \in 1..Len(bookingsData) : allSlots[i].booking[1] = bookingsData[k]
              /\ allSlots[i].booking[1].apartmentId = allSlots[i].apartmentId
              /\ allSlots[i].booking[1].date = allSlots[i].date
              /\ allSlots[i].booking[1].startTime = allSlots[i].startTime
              /\ allSlots[i].booking[1].endTime = allSlots[i].endTime
    /\ \A k \in 1..Len(bookingsData) : Cardinality(attachedAt(bookingsData[k])) <= 1

\* a finished generation with two reservations for the same slot, of which the
\* first is attached to that slot and the second to none, next to a
\* reservation-free slot of the same apartment
C22_Witness ==
    /\ pc = "restrict"
    /\ Len(bookingsData) = 2
    /\ bookingsData[1].apartmentId = bookingsData[2].apartmentId
    /\ bookingsData[1].startTime = bookingsData[2].startTime
    /\ bookingsData[1].endTime = bookingsData[2].endTime
    /\ Cardinality(attachedAt(bookingsData[1])) = 1
    /\ attachedAt(bookingsData[2]) = {}
    /\ \E i \in 1..Len(allSlots) :
          /\ allSlots[i].apartmentId = bookingsData[1].apartmentId
          /\ allSlots[i].status = "available"

----------------------------------------------------------------------------
(* Where each status comes from *)

\* C23: generation produces the statuses 'available' and 'booked' only, and a
\* slot with an attached reservation is 'booked' whether the reservation is
\* 'booked' or 'unavailable'; 'unavailable' and 'travel-restricted' are found
\* only in what the restriction step returned for a requester with a home;
\* after the pass every status is one of available, booked, unavailable,
\* travel-restricted.
C23_StatusOrigins ==
    /\ \A i \in 1..Len(allSlots) :
          /\ allSlots[i].status \in {"available", "booked"}
          /\ allSlots[i].booking # NoBooking => allSlots[i].status = "booked"
    /\ \A i \in 1..Len(restricted) :
          /\ restricted[i].status
                 \in {"available", "booked", "unavailable", "travel-restricted"}
          /\ restricted[i].status \in {"unavailable", "travel-restricted"}
                 => /\ pc \in {"group", "done"}
                    /\ userHomeLocation # ""
                    /\ allSlots[i].status = "available"
    /\ pc = "done" =>
          \A a \in DOMAIN timeSlots : \A i \in 1..Len(timeSlots[a]) :
              timeSlots[a][i].status
                  \in {"available", "booked", "unavailable", "travel-restricted"}

\* a finished pass with a slot 'booked' by a reservation of status
\* 'unavailable', and with a slot 'unavailable' and a slot 'travel-restricted'
\* in the grouped result
C23_Witness ==
    /\ pc = "done"
    /\ \E i \in 1..Len(allSlots) :
          /\ allSlots[i].status = "booked"
          /\ allSlots[i].booking[1].status = "unavailable"
    /\ \E a, b \in DOMAIN timeSlots :
          /\ \E i \in 1..Len(timeSlots[a]) : timeSlots[a][i].status = "unavailable"
          /\ \E i \in 1..Len(timeSlots[b]) : timeSlots[b][i].status = "travel-restricted"

----------------------------------------------------------------------------
(* What the resolver leaves alone *)

\* C24: the resolver (either variant) changes the status field only: the slot
\* returned at each position is the input slot at that position with, at most,
\* another status; apartment, date, start, end and attached reservation are
\* the input slot's, also when the status is new.
C24_OnlyStatusChanges ==
    returnedFromResolver =>
        /\ DOMAIN restricted = DOMAIN allSlots
        /\ \A i \in 1..Len(allSlots) :
              restricted[i] = [allSlots[i] EXCEPT !.status = restricted[i].status]

\* a returned call in which a slot got a new status next to a booked slot that
\* came back with its reservation
C24_Witness ==
    /\ returnedFromResolver
    /\ \E i, j \in 1..Len(allSlots) :
          /\ restricted[i].status # allSlots[i].status
          /\ allSlots[j].status = "booked"
          /\ allSlots[j].booking # NoBooking
          /\ restricted[j].booking = allSlots[j].booking
          /\ allSlots[i].startTime # allSlots[j].startTime

----------------------------------------------------------------------------
(* Grouping *)

\* C25: groupSlotsByApartment returns a partition of its input: the keys are
\* the apartment ids that occur in the input, the group of an id holds exactly
\* the input slots of that apartment in input order (so none is empty), and
\* the groups together hold every input slot once.
C25_GroupingPartitions ==
    pc # "callGroup" =>
        /\ pc = "grouped"
        /\ DOMAIN timeSlots = { allSlots[i].apartmentId : i \in 1..Len(allSlots) }
        /\ \A a \in DOMAIN timeSlots :
              /\ timeSlots[a] = SelectSeq(allSlots, LAMBDA s : s.apartmentId = a)
              /\ timeSlots[a] # <<>>

----------------------------------------------------------------------------
(* Resolving a resolved list again *)

\* the result of a second call on the result of the first, same home id
resolvedAgain == applyTravelTimeRestrictions(restricted, userHomeLocation)

\* positions the first call turned 'unavailable'
turnedUnavailable ==
    { j \in 1..Len(allSlots) :
        restricted[j].status = "unavailable" /\ allSlots[j].status # "unavailable" }

\* C26 as stated: applying the resolver to its own output, with the same home
\* id, returns that output unchanged.
C26_ReapplicationStable ==
    pc = "returned" => resolvedAgain = restricted

\* C26, amended: a second call returns the output of the first unchanged
\* whenever the first call turned no slot 'unavailable'; in general it changes
\* a slot only if that slot conflicts with a slot of another apartment that
\* the first call turned 'unavailable' (such a slot counts as occupied in the
\* second call), and slots the first call marked 'travel-restricted' cause no
\* change.
C26_ReapplicationStableUnlessUnavailable ==
    pc = "returned" =>
        /\ turnedUnavailable = {} => resolvedAgain = restricted
        /\ \A i \in 1..Len(restricted) :
              resolvedAgain[i] # restricted[i] =>
                  \E j \in turnedUnavailable :
                      /\ restricted[j].apartmentId # restricted[i].apartmentId
                      /\ hasConflict(restricted[i], restricted[j], userHomeLocation)

\* a returned call that marked a slot 'travel-restricted' and turned none
\* 'unavailable', with a slot of another apartment that lies in the buffer of
\* the marked slot and is 'available' after the first and the second call
C26_Witness ==
    /\ pc = "returned"
    /\ turnedUnavailable = {}
    /\ \E i, k \in 1..Len(allSlots) :
          /\ allSlots[i].status = "available"
          /\ restricted[i].status = "travel-restricted"
          /\ restricted[k].apartmentId # restricted[i].apartmentId
          /\ restricted[i].apartmentId # userHomeLocation
          /\ touchesBuffer(restricted[k], restricted[i])
          /\ restricted[k].status = "available"
          /\ resolvedAgain[k].status = "available"

----------------------------------------------------------------------------
(* The grid and the engine *)

\* C27: for apartments open 08:00-20:00 with hourly slots and reservations
\* that start on the hour at apartments other than the requester's home, the
\* grid shows the hour slot of every apartment other than the home as booked
\* exactly when generateTimeSlots marked it 'booked', and as Travel Buffer
\* exactly when the resolver returned it 'travel-restricted'; reservations
\* longer than an hour included.
C27_GridAgreesWithEngine ==
    ( /\ pc = "rendered"
      /\ \A k \in 1..Len(bookingsData) : bookingsData[k].apartmentId # userHomeLocation )
    => \A i \in 1..Len(allSlots) :
           allSlots[i].apartmentId # userHomeLocation =>
               LET shown == gridText[allSlots[i].apartmentId][allSlots[i].startTime]
               IN  /\ (shown = "Booked") <=> (allSlots[i].status = "booked")
                   /\ (shown = "Travel Buffer")
                          <=> (restricted[i].status = "travel-restricted")

----------------------------------------------------------------------------
(* The route guard *)

\* C28: PrivateRoute renders its children only when auth loading is false, a
\* user is signed in and, for a required role, the loaded profile has that
\* role; without a user it redirects to /login, on a role mismatch (a profile
\* not loaded included) to /; so, whatever sign-ins, sign-outs and profile
\* loads have happened, the admin dashboard is on screen only for a signed-in
\* user whose own profile has the role 'admin'.
C28_RouteGuard ==
    LET guard == PrivateRoute("AdminDashboard", "admin", loading, currentUser, userData)
    IN  /\ guard = "AdminDashboard"
               => ~loading /\ currentUser # Null /\ roleOf(userData) = "admin"
        /\ (~loading /\ currentUser = Null) => guard = "Navigate /login"
        /\ (~loading /\ currentUser # Null /\ roleOf(userData) # "admin")
               => guard = "Navigate /"
        /\ onScreen = "AdminDashboard" => roleOf(profileOf(currentUser)) = "admin"

\* the fetchData call started last
latestFetch == fetches[Len(fetches)]

allSettled == \A i \in 1..Len(fetches) : ~inFlight(i)

\* C29: when the date or the refresh counter changed while an earlier fetch
\* was in flight, then once every fetch has completed (the one for the
\* selected date with a result) the bookings in state are those stored for
\* the selected date: a late response for an earlier date does not overwrite
\* them.
C29_NoStaleSchedule ==
    (pc = "viewing" /\ allSettled /\ latestFetch.outcome = "loaded")
        => bookingsState = getBookingsByDate(selectedDate)

\* C30: every fetchData call that is in flight settles, and the step that
\* settles it sets the loading flag to false (resolved, no apartments, after
\* the retry, or rejected); and the loading flag is true for as long as the
\* call started last is in flight.
C30_LoadingEnds ==
    /\ \A i \in 1..MaxFetches : inFlight(i) ~> ~inFlight(i)
    /\ [][\A i \in 1..MaxFetches :
            (inFlight(i) /\ ~inFlight(i)') => ~isLoading']_vars
    /\ [](pc = "viewing" /\ inFlight(Len(fetches)) => isLoading)

====
